---- MODULE Spec2Model ----
(***************************************************************************)
(* CANReader example (src/CANReader/main.cpp): main(), the CANReaderNode   *)
(* lifecycle callbacks, and the two collaborators they call into: the      *)
(* PolySync node runtime (connectPolySync, activateFault,                  *)
(* disconnectPolySync) and the CANChannel library object.                  *)
(*                                                                         *)
(* The runtime is modelled as the source documents it: initStateEvent is   *)
(* triggered once, okStateEvent repeatedly while the node is operational,  *)
(* a fault activated with NODE_STATE_ERROR triggers errorStateEvent,       *)
(* disconnectPolySync (or SIGINT) triggers releaseStateEvent once, and a   *)
(* C++ exception that leaves a callback propagates through                 *)
(* connectPolySync into main.  Every CANChannel operation may fail by      *)
(* throwing a DTCException; which one fails is chosen nondeterministically.*)
(***************************************************************************)
EXTENDS Integers, Sequences, FiniteSets, TLC

(* ------------------------------ bounds --------------------------------- *)

\* longest command-line argument, in characters
MaxArgLen == 2

\* most okStateEvent calls the runtime makes in one run
MaxReads == 3

\* most times the simulated host of SpecTwice invokes releaseStateEvent again
MaxExtraReleases == 2

(* --------------------------- input alphabets --------------------------- *)

\* characters an argument is made of: digits, a letter, a sign, white space
ArgChars == {"1", "2", "x", "-", " "}

Digits == {"0", "1", "2", "3", "4", "5", "6", "7", "8", "9"}

RECURSIVE SeqsUpTo(_, _)
SeqsUpTo(S, n) ==
    IF n = 0 THEN {<<>>}
    ELSE LET shorter == SeqsUpTo(S, n - 1)
         IN  shorter \cup {Append(s, c) : s \in {t \in shorter : Len(t) = n - 1}, c \in S}

\* argv[1..]: either absent (argc = 1) or one string
NoArg == <<"<no argument>">>
Args == {NoArg} \cup (SeqsUpTo(ArgChars, MaxArgLen) \ {<<>>})

\* diagnostic codes a DTCException can carry
DTC_UNAVAILABLE == "DTC_UNAVAILABLE"
FatalDtcs == {"DTC_NOINTERFACE", "DTC_IOERR"}
Dtcs == {DTC_UNAVAILABLE} \cup FatalDtcs

\* frames the bus can deliver: identifier and payload size
Frames == {[id |-> 291, dlc |-> 4], [id |-> 5, dlc |-> 8]}

NODE_STATE_ERROR == "ERROR"
PSYNC_CAN_OPEN_ALLOW_VIRTUAL == "PSYNC_CAN_OPEN_ALLOW_VIRTUAL"
DATARATE_500K == "DATARATE_500K"

nullptr == 0

(* ------------------------------ std::stoul ----------------------------- *)

DigitVal(c) ==
    CASE c = "0" -> 0 [] c = "1" -> 1 [] c = "2" -> 2 [] c = "3" -> 3
      [] c = "4" -> 4 [] c = "5" -> 5 [] c = "6" -> 6 [] c = "7" -> 7
      [] c = "8" -> 8 [] c = "9" -> 9

RECURSIVE SkipSpace(_)
SkipSpace(s) == IF s # <<>> /\ Head(s) = " " THEN SkipSpace(Tail(s)) ELSE s

RECURSIVE DigitPrefix(_)
DigitPrefix(s) ==
    IF s # <<>> /\ Head(s) \in Digits THEN <<Head(s)>> \o DigitPrefix(Tail(s)) ELSE <<>>

RECURSIVE DecValue(_)
DecValue(ds) ==
    IF ds = <<>> THEN 0 ELSE 10 * DecValue(SubSeq(ds, 1, Len(ds) - 1)) + DigitVal(ds[Len(ds)])

\* std::stoul(str) with base 10: leading white space is skipped, one optional
\* sign is accepted, then the longest run of digits is converted and whatever
\* follows is ignored.  No digit at all throws std::invalid_argument.  A
\* leading '-' negates the value in unsigned arithmetic.  (std::out_of_range
\* needs more than MaxArgLen digits and is not reachable within the bound.)
Stoul(str) ==
    LET s1   == SkipSpace(str)
        sign == IF s1 # <<>> /\ Head(s1) \in {"-", "+"} THEN Head(s1) ELSE ""
        s2   == IF sign = "" THEN s1 ELSE Tail(s1)
        ds   == DigitPrefix(s2)
    IN  IF ds = <<>>
        THEN [throws |-> TRUE, neg |-> FALSE, mag |-> 0]
        ELSE [throws |-> FALSE, neg |-> (sign = "-"), mag |-> DecValue(ds)]

\* unsigned long -> uint conversion of the constructor argument.  A negated
\* magnitude m > 0 is 2^64 - m, which narrows to 2^32 - m; that value is kept
\* here as the integer -m (2^32 is beyond the integers TLC computes with).
ToUInt(r) == IF r.neg THEN 0 - r.mag ELSE r.mag

(* ------------------------------- state --------------------------------- *)

VARIABLES
    argv,           \* the command line argument of this run
    pc,             \* where main is
    exitCode,       \* "none" while running, then "0", "1" or "abort"
    stdout,         \* lines written to std::cout, each a sequence of tokens
    pending,        \* the exception in flight through connectPolySync, or "none"
    nodeState,      \* the runtime's state of the node
    _channel,       \* CANReaderNode::_channel: nullptr or an index into heap
    _channelID,     \* CANReaderNode::_channelID
    heap,           \* every CANChannel object ever constructed
    trace,          \* every call into the runtime or the CAN library, in order
    okCalls,        \* okStateEvent calls so far
    extraReleases   \* releaseStateEvent calls made by the simulated host of SpecTwice

vars == <<argv, pc, exitCode, stdout, pending, nodeState, _channel, _channelID,
          heap, trace, okCalls, extraReleases>>

nodeVars == <<nodeState, _channel, _channelID, heap, trace, okCalls>>

\* one entry of trace: the operation, its arguments, the code it failed with
\* ("ok" when it did not), and whether the handle h it went through was
\* non-null and its channel on bus in heap hp when the call was made
Ev(op, arg, arg2, dtc, h, hp) ==
    [op |-> op, arg |-> arg, arg2 |-> arg2, dtc |-> dtc,
     held |-> h # nullptr,
     bus |-> IF h # nullptr THEN hp[h].onBus ELSE FALSE]

Line(s) == <<s>>

Init ==
    /\ argv \in Args
    /\ pc = "start"
    /\ exitCode = "none"
    /\ stdout = <<>>
    /\ pending = "none"
    /\ nodeState = "NONE"
    /\ _channel = nullptr
    /\ _channelID = 0
    /\ heap = <<>>
    /\ trace = <<>>
    /\ okCalls = 0
    /\ extraReleases = 0

(* -------------------------------- main --------------------------------- *)

UsageExample == Line("For example: polysync-can-reader-cpp 1")
MissingArgMessage == <<Line("Must pass CAN channel argument."), UsageExample>>
InvalidArgMessage ==
    <<Line("Invalid argument. This example requires valid integer input representing a CAN channel."),
      UsageExample>>

\* main, argc <= 1: the else branch
MainNoArgument ==
    /\ pc = "start"
    /\ argv = NoArg
    /\ stdout' = stdout \o MissingArgMessage
    /\ exitCode' = "1"
    /\ pc' = "exited"
    /\ UNCHANGED <<argv, pending, nodeVars, extraReleases>>

\* main, argc > 1 and std::stoul throws: no node is constructed, the handler runs
MainStoulThrows ==
    /\ pc = "start"
    /\ argv # NoArg
    /\ Stoul(argv).throws
    /\ pending' = "invalid_argument"
    /\ pc' = "catch"
    /\ UNCHANGED <<argv, exitCode, stdout, nodeVars, extraReleases>>

\* mutant: the constructor drops its argument, _channelID keeps its default 0
CANReaderNode_Dropped(channelID) == 0

\* CANReaderNode( uint channelID ) : _channelID( channelID )
CANReaderNode(channelID) == channelID

\* main, argc > 1 and std::stoul returns: construct the node and name it
MainConstruct ==
    /\ pc = "start"
    /\ argv # NoArg
    /\ ~Stoul(argv).throws
    /\ _channelID' = CANReaderNode(ToUInt(Stoul(argv)))
    /\ _channel' = nullptr
    /\ pc' = "connect"
    /\ UNCHANGED <<argv, exitCode, stdout, pending, nodeState, heap, trace, okCalls,
                   extraReleases>>

\* mutant: the handler falls through to return 0
CatchReturns_Zero == "0"

\* the value main returns from its handler
CatchReturns == "1"

\* main, catch( std::exception & e )
MainCatch ==
    /\ pc = "catch"
    /\ stdout' = stdout \o InvalidArgMessage
    /\ exitCode' = CatchReturns
    /\ pc' = "exited"
    /\ UNCHANGED <<argv, pending, nodeVars, extraReleases>>

\* main, the try block left normally: return 0
MainReturn ==
    /\ pc = "scope_exit"
    /\ exitCode' = "0"
    /\ pc' = "exited"
    /\ UNCHANGED <<argv, stdout, pending, nodeVars, extraReleases>>

(* ------------------------- CANReaderNode members ----------------------- *)

\* uint _flags{ PSYNC_CAN_OPEN_ALLOW_VIRTUAL }
_flags == PSYNC_CAN_OPEN_ALLOW_VIRTUAL

\* ps_datarate_kind _bitRate{ DATARATE_500K }
_bitRate == DATARATE_500K

\* operator<< of an unsigned integer: std::cout is never switched to std::hex,
\* so the digits are decimal
RECURSIVE Dec(_)
Dec(n) ==
    LET d == <<"0", "1", "2", "3", "4", "5", "6", "7", "8", "9">>
    IN  IF n < 10 THEN <<d[n + 1]>> ELSE Dec(n \div 10) \o <<d[(n % 10) + 1]>>

\* std::cout << exception.what()
What(dtc) == <<"DTCException::what", dtc>>

\* the outcomes of one initStateEvent: which call throws, and with what code
InitOutcomes ==
    {[step |-> "none", dtc |-> "ok"]}
    \cup [step : {"new", "setBitRate", "goOnBus"}, dtc : Dtcs]

\* the outcomes of one CANChannel::read: a frame, or a DTCException
ReadOutcomes == [frame : Frames, dtc : {"ok"}] \cup [frame : {[id |-> 0, dlc |-> 0]}, dtc : Dtcs]

\* the outcomes of one CANChannel::goOffBus
OffOutcomes == {"ok"} \cup Dtcs

\* the object new polysync::CANChannel( _channelID, _flags ) constructs
NewChannel(id, flags) ==
    [id |-> id, flags |-> flags, rate |-> "unset", onBus |-> FALSE, alive |-> TRUE]

\* mutant: the catch block prints and forgets activateFault
InitCatch_NoFault(dtc) ==
    [out |-> <<Line("exception"), What(dtc)>>, fault |-> <<>>]

\* initStateEvent, the catch block: print, then activateFault( dtc, NODE_STATE_ERROR )
InitCatch(dtc) ==
    [out   |-> <<Line("exception"), What(dtc)>>,
     fault |-> <<[dtc |-> dtc, state |-> NODE_STATE_ERROR]>>]

\* mutant: the catch block escalates every code, DTC_UNAVAILABLE included
OkCatch_NoFilter(dtc) ==
    [out |-> <<What(dtc)>>, fault |-> <<[dtc |-> dtc, state |-> NODE_STATE_ERROR]>>]

\* mutant: the catch block prints every code before it filters
OkCatch_LogsEmpty(dtc) ==
    IF dtc # DTC_UNAVAILABLE
    THEN [out |-> <<What(dtc)>>, fault |-> <<[dtc |-> dtc, state |-> NODE_STATE_ERROR]>>]
    ELSE [out |-> <<What(dtc)>>, fault |-> <<>>]

\* okStateEvent, the catch block: DTC_UNAVAILABLE is swallowed, any other code
\* is printed and escalated with activateFault( dtc, NODE_STATE_ERROR )
OkCatch(dtc) ==
    IF dtc # DTC_UNAVAILABLE
    THEN [out |-> <<What(dtc)>>, fault |-> <<[dtc |-> dtc, state |-> NODE_STATE_ERROR]>>]
    ELSE [out |-> <<>>, fault |-> <<>>]

\* polysync::Node::activateFault as the callbacks use it: the calls it adds to
\* the trace and the state the runtime moves the node to
FaultEvents(fault, h, hp) ==
    [i \in 1..Len(fault) |-> Ev("activateFault", 0, fault[i].state, fault[i].dtc, h, hp)]

StateAfter(fault, otherwise) ==
    IF fault # <<>> THEN fault[Len(fault)].state ELSE otherwise

\* mutant: initStateEvent brings the channel on bus before it sets the bit rate
InitBody_OnBusFirst(o) ==
    LET obj   == NewChannel(_channelID, _flags)
        hp1   == Append(heap, obj)
        h     == Len(hp1)
        hp2   == [hp1 EXCEPT ![h].onBus = TRUE]
        hp3   == [hp2 EXCEPT ![h].rate = _bitRate]
        hello == <<Line("CANReaderNode::initStateEvent()")>>
        open  == Ev("new CANChannel", _channelID, _flags,
                    IF o.step = "new" THEN o.dtc ELSE "ok", _channel, heap)
        onbus == Ev("goOnBus", 0, "", IF o.step = "goOnBus" THEN o.dtc ELSE "ok", h, hp1)
        rate  == Ev("setBitRate", 0, _bitRate,
                    IF o.step = "setBitRate" THEN o.dtc ELSE "ok", h, hp2)
        before == <<Line("before psync calls")>>
    IN  CASE o.step = "new" ->
               [chan |-> _channel, hp |-> heap, out |-> hello, events |-> <<open>>,
                fault |-> <<>>, escapes |-> o.dtc]
          [] o.step = "goOnBus" ->
               [chan |-> h, hp |-> hp1, out |-> hello \o before \o InitCatch(o.dtc).out,
                events |-> <<open, onbus>> \o FaultEvents(InitCatch(o.dtc).fault, h, hp1),
                fault |-> InitCatch(o.dtc).fault, escapes |-> "none"]
          [] o.step = "setBitRate" ->
               [chan |-> h, hp |-> hp2, out |-> hello \o before \o InitCatch(o.dtc).out,
                events |-> <<open, onbus, rate>> \o FaultEvents(InitCatch(o.dtc).fault, h, hp2),
                fault |-> InitCatch(o.dtc).fault, escapes |-> "none"]
          [] OTHER ->
               [chan |-> h, hp |-> hp3,
                out |-> hello \o before \o <<Line("after psync calls")>>,
                events |-> <<open, onbus, rate>>, fault |-> <<>>, escapes |-> "none"]

\* the body of initStateEvent under outcome o, as the values it leaves behind;
\* escapes is the exception that leaves the callback, or "none"
InitBody(o) ==
    LET obj   == NewChannel(_channelID, _flags)
        hp1   == Append(heap, obj)
        h     == Len(hp1)
        hp2   == [hp1 EXCEPT ![h].rate = _bitRate]
        hp3   == [hp2 EXCEPT ![h].onBus = TRUE]
        hello == <<Line("CANReaderNode::initStateEvent()")>>
        open  == Ev("new CANChannel", _channelID, _flags,
                    IF o.step = "new" THEN o.dtc ELSE "ok", _channel, heap)
        rate  == Ev("setBitRate", 0, _bitRate,
                    IF o.step = "setBitRate" THEN o.dtc ELSE "ok", h, hp1)
        onbus == Ev("goOnBus", 0, "", IF o.step = "goOnBus" THEN o.dtc ELSE "ok", h, hp2)
        before == <<Line("before psync calls")>>
    IN  CASE o.step = "new" ->
               [chan |-> _channel, hp |-> heap, out |-> hello, events |-> <<open>>,
                fault |-> <<>>, escapes |-> o.dtc]
          [] o.step = "setBitRate" ->
               [chan |-> h, hp |-> hp1, out |-> hello \o before \o InitCatch(o.dtc).out,
                events |-> <<open, rate>> \o FaultEvents(InitCatch(o.dtc).fault, h, hp1),
                fault |-> InitCatch(o.dtc).fault, escapes |-> "none"]
          [] o.step = "goOnBus" ->
               [chan |-> h, hp |-> hp2, out |-> hello \o before \o InitCatch(o.dtc).out,
                events |-> <<open, rate, onbus>> \o FaultEvents(InitCatch(o.dtc).fault, h, hp2),
                fault |-> InitCatch(o.dtc).fault, escapes |-> "none"]
          [] OTHER ->
               [chan |-> h, hp |-> hp3,
                out |-> hello \o before \o <<Line("after psync calls")>>,
                events |-> <<open, rate, onbus>>, fault |-> <<>>, escapes |-> "none"]

\* mutant: okStateEvent retries the read once after escalating a failure
OkBody_Retry(o) ==
    LET rd == Ev("read", 0, "", o.dtc, _channel, heap)
    IN  IF o.dtc = "ok"
        THEN [out |-> << <<"CAN frame - ID: 0x">> \o Dec(o.frame.id),
                         <<"DLC: ">> \o Dec(o.frame.dlc) >>,
              events |-> <<rd, Ev("getInputFrameId", o.frame.id, "", "ok", _channel, heap),
                           Ev("getInputFramePayloadSize", o.frame.dlc, "", "ok", _channel, heap)>>,
              fault |-> <<>>]
        ELSE [out |-> OkCatch(o.dtc).out,
              events |-> <<rd>> \o FaultEvents(OkCatch(o.dtc).fault, _channel, heap) \o <<rd>>,
              fault |-> OkCatch(o.dtc).fault]

\* the body of okStateEvent under read outcome o on a live channel
OkBody(o) ==
    LET rd == Ev("read", 0, "", o.dtc, _channel, heap)
    IN  IF o.dtc = "ok"
        THEN [out |-> << <<"CAN frame - ID: 0x">> \o Dec(o.frame.id),
                         <<"DLC: ">> \o Dec(o.frame.dlc) >>,
              events |-> <<rd, Ev("getInputFrameId", o.frame.id, "", "ok", _channel, heap),
                           Ev("getInputFramePayloadSize", o.frame.dlc, "", "ok", _channel, heap)>>,
              fault |-> <<>>]
        ELSE [out |-> OkCatch(o.dtc).out,
              events |-> <<rd>> \o FaultEvents(OkCatch(o.dtc).fault, _channel, heap),
              fault |-> OkCatch(o.dtc).fault]

\* mutant: releaseStateEvent deletes the channel and keeps the stale pointer
ReleaseBody_Dangling(off) ==
    LET hello == <<Line("CANReaderNode::releaseStateEvent()")>>
        gooff == Ev("goOffBus", 0, "", off, _channel, heap)
        del   == Ev("delete", 0, "", "ok", _channel, heap)
    IN  IF _channel # nullptr
        THEN IF off = "ok"
             THEN [chan |-> _channel,
                   hp |-> [heap EXCEPT ![_channel].onBus = FALSE, ![_channel].alive = FALSE],
                   out |-> hello, events |-> <<gooff, del>>, escapes |-> "none"]
             ELSE [chan |-> _channel, hp |-> heap, out |-> hello, events |-> <<gooff>>,
                   escapes |-> off]
        ELSE [chan |-> _channel, hp |-> heap, out |-> hello, events |-> <<>>,
              escapes |-> "none"]

\* the body of releaseStateEvent when goOffBus ends with off
ReleaseBody(off) ==
    LET hello == <<Line("CANReaderNode::releaseStateEvent()")>>
        gooff == Ev("goOffBus", 0, "", off, _channel, heap)
        del   == Ev("delete", 0, "", "ok", _channel, heap)
    IN  IF _channel # nullptr
        THEN IF off = "ok"
             THEN [chan |-> nullptr,
                   hp |-> [heap EXCEPT ![_channel].onBus = FALSE, ![_channel].alive = FALSE],
                   out |-> hello, events |-> <<gooff, del>>, escapes |-> "none"]
             ELSE [chan |-> _channel, hp |-> heap, out |-> hello, events |-> <<gooff>>,
                   escapes |-> off]
        ELSE [chan |-> _channel, hp |-> heap, out |-> hello, events |-> <<>>,
              escapes |-> "none"]

\* the body of ~CANReaderNode when goOffBus ends with off
DestructorBody(off) ==
    LET gooff == Ev("goOffBus", 0, "", off, _channel, heap)
        del   == Ev("delete", 0, "", "ok", _channel, heap)
    IN  IF _channel # nullptr
        THEN IF off = "ok"
             THEN [chan |-> nullptr,
                   hp |-> [heap EXCEPT ![_channel].onBus = FALSE, ![_channel].alive = FALSE],
                   events |-> <<gooff, del>>, escapes |-> "none"]
             ELSE [chan |-> _channel, hp |-> heap, events |-> <<gooff>>, escapes |-> off]
        ELSE [chan |-> _channel, hp |-> heap, events |-> <<>>, escapes |-> "none"]

(* ------------------------ the lifecycle, runtime-driven ---------------- *)

\* canReader.setNodeName(...); canReader.connectPolySync(): the runtime takes
\* the node into its execution loop
connectPolySync ==
    /\ pc = "connect"
    /\ pc' = "loop"
    /\ nodeState' = "INIT"
    /\ trace' = Append(trace, Ev("connectPolySync", 0, "", "ok", _channel, heap))
    /\ UNCHANGED <<argv, exitCode, stdout, pending, _channel, _channelID, heap, okCalls,
                   extraReleases>>

\* initStateEvent, triggered once
initStateEvent ==
    /\ pc = "loop"
    /\ nodeState = "INIT"
    /\ \E o \in InitOutcomes :
         LET r == InitBody(o)
         IN  /\ _channel' = r.chan
             /\ heap' = r.hp
             /\ stdout' = stdout \o r.out
             /\ trace' = trace \o r.events
             /\ IF r.escapes # "none"
                THEN /\ pending' = r.escapes
                     /\ pc' = "unwind"
                     /\ nodeState' = nodeState
                ELSE /\ pending' = pending
                     /\ pc' = pc
                     /\ nodeState' = StateAfter(r.fault, "OK")
    /\ UNCHANGED <<argv, exitCode, _channelID, okCalls, extraReleases>>

\* okStateEvent, called repeatedly while the node is operational.  Going
\* through a null or deleted handle is undefined behaviour: the call is
\* recorded and the process may crash or carry on with any read outcome.
okStateEvent ==
    /\ pc = "loop"
    /\ nodeState = "OK"
    /\ okCalls < MaxReads
    /\ okCalls' = okCalls + 1
    /\ \E o \in ReadOutcomes, crash \in BOOLEAN :
         LET r     == OkBody(o)
             wild  == _channel = nullptr \/ ~heap[_channel].alive
         IN  /\ crash => wild
             /\ trace' = IF crash THEN Append(trace, Ev("read", 0, "", "ok", _channel, heap))
                         ELSE trace \o r.events
             /\ stdout' = IF crash THEN stdout ELSE stdout \o r.out
             /\ nodeState' = IF crash THEN nodeState ELSE StateAfter(r.fault, nodeState)
             /\ pc' = IF crash THEN "exited" ELSE pc
             /\ exitCode' = IF crash THEN "abort" ELSE exitCode
    /\ UNCHANGED <<argv, pending, _channel, _channelID, heap, extraReleases>>

\* errorStateEvent: log, then disconnectPolySync(), which triggers the release
errorStateEvent ==
    /\ pc = "loop"
    /\ nodeState = "ERROR"
    /\ stdout' = Append(stdout, Line("CANReaderNode::errorStateEvent()"))
    /\ trace' = Append(trace, Ev("disconnectPolySync", 0, "", "ok", _channel, heap))
    /\ nodeState' = "RELEASE"
    /\ UNCHANGED <<argv, pc, exitCode, pending, _channel, _channelID, heap, okCalls,
                   extraReleases>>

\* SIGINT while the node is operational: the runtime starts a graceful shutdown
Sigint ==
    /\ pc = "loop"
    /\ nodeState = "OK"
    /\ nodeState' = "RELEASE"
    /\ trace' = Append(trace, Ev("SIGINT", 0, "", "ok", _channel, heap))
    /\ UNCHANGED <<argv, pc, exitCode, stdout, pending, _channel, _channelID, heap, okCalls,
                   extraReleases>>

\* releaseStateEvent, triggered once upon the node's release; connectPolySync
\* returns after it, or is left by the exception goOffBus threw
releaseStateEvent ==
    /\ pc = "loop"
    /\ nodeState = "RELEASE"
    /\ \E off \in OffOutcomes :
         LET r == ReleaseBody(off)
         IN  /\ (_channel = nullptr => off = "ok")
             /\ _channel' = r.chan
             /\ heap' = r.hp
             /\ stdout' = stdout \o r.out
             /\ trace' = trace \o r.events
             /\ IF r.escapes # "none"
                THEN /\ pending' = r.escapes
                     /\ pc' = "unwind"
                     /\ nodeState' = nodeState
                ELSE /\ pending' = pending
                     /\ pc' = "dtor"
                     /\ nodeState' = "DONE"
    /\ UNCHANGED <<argv, exitCode, _channelID, okCalls, extraReleases>>

\* ~CANReaderNode, run when canReader leaves the try block: normally, or while
\* the stack unwinds.  The destructor is noexcept: an exception leaving it
\* ends the process in std::terminate.
Destructor ==
    /\ pc \in {"dtor", "unwind"}
    /\ \E off \in OffOutcomes :
         LET r == DestructorBody(off)
         IN  /\ (_channel = nullptr => off = "ok")
             /\ _channel' = r.chan
             /\ heap' = r.hp
             /\ trace' = trace \o r.events
             /\ IF r.escapes # "none"
                THEN /\ pc' = "exited"
                     /\ exitCode' = "abort"
                ELSE /\ pc' = IF pc = "dtor" THEN "scope_exit" ELSE "catch"
                     /\ exitCode' = exitCode
    /\ UNCHANGED <<argv, stdout, pending, nodeState, _channelID, okCalls, extraReleases>>

\* a simulated host invoking releaseStateEvent once more after the release (or
\* after the lifecycle was cut short), absorbing what it throws
releaseAgain ==
    /\ pc \in {"dtor", "unwind"}
    /\ extraReleases < MaxExtraReleases
    /\ extraReleases' = extraReleases + 1
    /\ \E off \in OffOutcomes :
         LET r == ReleaseBody(off)
         IN  /\ (_channel = nullptr => off = "ok")
             /\ _channel' = r.chan
             /\ heap' = r.hp
             /\ stdout' = stdout \o r.out
             /\ trace' = trace \o r.events
    /\ UNCHANGED <<argv, pc, exitCode, pending, nodeState, _channelID, okCalls>>

Next ==
    \/ MainNoArgument
    \/ MainStoulThrows
    \/ MainConstruct
    \/ connectPolySync
    \/ initStateEvent
    \/ okStateEvent
    \/ errorStateEvent
    \/ Sigint
    \/ releaseStateEvent
    \/ Destructor
    \/ MainCatch
    \/ MainReturn

Spec == Init /\ [][Next]_vars

\* the same program under a simulated host that may invoke teardown again
NextTwice == Next \/ releaseAgain

SpecTwice == Init /\ [][NextTwice]_vars

(* ------------------------- what the runs are asked --------------------- *)

At(op) == {i \in DOMAIN trace : trace[i].op = op}
Count(op) == Cardinality(At(op))
Printed(line) == \E i \in DOMAIN stdout : stdout[i] = line

ReleaseLine == Line("CANReaderNode::releaseStateEvent()")
InitSteps == {"new CANChannel", "setBitRate", "goOnBus"}
BusOps == {"read", "getInputFrameId", "getInputFramePayloadSize", "goOffBus"}

\* setBitRate or goOnBus threw during initStateEvent
BringUpFailed ==
    \E i \in DOMAIN trace : trace[i].op \in {"setBitRate", "goOnBus"} /\ trace[i].dtc # "ok"

\* allocation, setBitRate and goOnBus all succeeded
InitSucceeded == \E i \in At("goOnBus") : trace[i].dtc = "ok"

\* a read threw a code other than DTC_UNAVAILABLE
FatalRead == \E i \in At("read") : trace[i].dtc \in FatalDtcs

\* main was given no argument, or one std::stoul throws on
ArgRejected == argv = NoArg \/ Stoul(argv).throws

\* the argument is a plain decimal number
ArgIsNumber == argv # NoArg /\ \A i \in DOMAIN argv : argv[i] \in Digits

\* C1, as stated: the handle is non-null only if allocation, setBitRate and
\* goOnBus all succeeded and no teardown has run; after a failed bring-up it
\* is null.
C1_AsStated ==
    /\ _channel # nullptr => (InitSucceeded /\ ~Printed(ReleaseLine))
    /\ BringUpFailed => _channel = nullptr

\* C1, amended: the handle is non-null exactly while the one channel object
\* initStateEvent allocated is alive, whether or not its bring-up succeeded:
\* from the allocation until a teardown deletes it.  After a failed bring-up
\* the handle stays non-null until then.
C1_HandleTracksLiveChannel ==
    /\ Len(heap) <= 1
    /\ (_channel # nullptr) <=> (\E i \in DOMAIN heap : heap[i].alive)
    /\ _channel # nullptr =>
         /\ _channel \in DOMAIN heap
         /\ heap[_channel].alive
         /\ \E i \in At("new CANChannel") : trace[i].dtc = "ok"
         /\ Count("delete") = 0
    /\ (BringUpFailed /\ Count("delete") = 0) => _channel # nullptr

C1_Witness == BringUpFailed /\ _channel # nullptr /\ nodeState = "RELEASE"

\* C2, as stated: every step of initialization that fails with code D has D
\* printed and a fault activated with D that moves the node to Error.
C2_AsStated ==
    \A i \in DOMAIN trace :
        (trace[i].op \in InitSteps /\ trace[i].dtc # "ok") =>
            /\ Printed(What(trace[i].dtc))
            /\ \E j \in At("activateFault") :
                   j > i /\ trace[j].dtc = trace[i].dtc /\ trace[j].arg2 = NODE_STATE_ERROR

\* C3: when setBitRate or goOnBus fails, one fault is activated, the node is
\* in Error once (errorStateEvent runs once before the program ends), and
\* read is never called.
C3_BringUpFailureOneErrorNoRead ==
    BringUpFailed =>
        /\ Count("activateFault") = 1
        /\ Count("disconnectPolySync") <= 1
        /\ nodeState \in {"ERROR", "RELEASE", "DONE"}
        /\ (nodeState = "ERROR" <=> Count("disconnectPolySync") = 0)
        /\ (pc = "exited" => Count("disconnectPolySync") = 1)
        /\ Count("read") = 0

C3_Witness == BringUpFailed /\ pc = "exited" /\ exitCode = "0"

\* C4: a read that fails with DTC_UNAVAILABLE activates no fault and leaves
\* the node running, and a run whose reads all succeed or find no data never
\* activates a fault and never reaches Error.
C4_EmptyPollNeverEscalates ==
    /\ \A i \in At("read") :
           trace[i].dtc = DTC_UNAVAILABLE =>
               (i < Len(trace) => trace[i + 1].op # "activateFault")
    /\ (trace # <<>> /\ trace[Len(trace)].op = "read"
          /\ trace[Len(trace)].dtc = DTC_UNAVAILABLE) =>
           (nodeState = "OK" /\ pc = "loop")
    /\ (InitSucceeded /\ ~FatalRead) =>
           /\ Count("activateFault") = 0
           /\ nodeState # "ERROR"
           /\ ~Printed(Line("CANReaderNode::errorStateEvent()"))

C4_Witness ==
    /\ Len(trace) >= 2
    /\ trace[Len(trace)].op = "read" /\ trace[Len(trace)].dtc = DTC_UNAVAILABLE
    /\ trace[Len(trace) - 1].op = "read" /\ trace[Len(trace) - 1].dtc = DTC_UNAVAILABLE
    /\ nodeState = "OK"

\* C5, as stated: after a read fails with a code other than DTC_UNAVAILABLE
\* the finished run holds one activateFault with that code, one
\* errorStateEvent, then one teardown with one goOffBus and one delete, and
\* no read after the failing one.
C5_AsStated ==
    (FatalRead /\ pc = "exited") =>
        /\ Count("activateFault") = 1
        /\ \A i \in At("read") : trace[i].dtc \in FatalDtcs =>
               /\ i = Len(trace) \/ (trace[i + 1].op = "activateFault"
                                       /\ trace[i + 1].dtc = trace[i].dtc)
               /\ \A j \in At("read") : j <= i
        /\ Count("disconnectPolySync") = 1
        /\ Count("goOffBus") = 1
        /\ Count("delete") = 1

\* C6, as stated: releaseStateEvent with no channel held calls nothing and
\* leaves the handle null; called again right after a call it changes
\* nothing; and goOffBus and delete each happen at most once.
C6_AsStated ==
    [][(stdout' = Append(stdout, ReleaseLine)) =>
          /\ _channel = nullptr => (trace' = trace /\ heap' = heap /\ _channel' = nullptr)
          /\ (stdout # <<>> /\ stdout[Len(stdout)] = ReleaseLine) =>
                 (trace' = trace /\ heap' = heap /\ _channel' = _channel)
          /\ Cardinality({i \in DOMAIN trace' : trace'[i].op = "goOffBus"}) <= 1
          /\ Cardinality({i \in DOMAIN trace' : trace'[i].op = "delete"}) <= 1]_vars

\* C7: with a plain decimal argument N the CANChannel constructor is called
\* at most once, with N and the default flags, before any read, and exactly
\* once in a finished run.
C7_OneOpenBeforeReads ==
    ArgIsNumber =>
        /\ Count("new CANChannel") <= 1
        /\ \A i \in At("new CANChannel") :
               trace[i].arg = DecValue(argv) /\ trace[i].arg2 = PSYNC_CAN_OPEN_ALLOW_VIRTUAL
        /\ \A r \in At("read") : \E i \in At("new CANChannel") : i < r
        /\ (pc = "exited" => Count("new CANChannel") = 1)

C7_Witness == ArgIsNumber /\ Count("read") >= 2 /\ pc = "exited"

\* C8, as stated: read, getInputFrameId, getInputFramePayloadSize and
\* goOffBus are only ever called through a non-null handle whose channel is
\* on bus.
C8_AsStated ==
    \A i \in DOMAIN trace : trace[i].op \in BusOps => (trace[i].held /\ trace[i].bus)

\* C9, as stated: with no argument or one std::stoul rejects, main exits
\* with 1 having printed the same message in both cases (the one the missing
\* argument gets), and the node lifecycle is never entered.
C9_AsStated ==
    ArgRejected =>
        /\ trace = <<>> /\ nodeState = "NONE" /\ heap = <<>>
        /\ (pc = "exited" => (exitCode = "1" /\ stdout = MissingArgMessage))

\* C9, amended: with no argument or one std::stoul throws on, main exits
\* with 1 having printed two lines, whose second, the usage example, is the
\* same in both cases and whose first differs ("Must pass CAN channel
\* argument." / "Invalid argument. ..."); no node is connected and no
\* callback runs.
C9_RejectedArgument ==
    ArgRejected =>
        /\ trace = <<>> /\ nodeState = "NONE" /\ heap = <<>> /\ _channel = nullptr
        /\ pc \in {"start", "catch", "exited"}
        /\ (pc = "exited" =>
              /\ exitCode = "1"
              /\ Len(stdout) = 2
              /\ stdout[2] = UsageExample
              /\ stdout[1] = IF argv = NoArg
                             THEN Line("Must pass CAN channel argument.")
                             ELSE InvalidArgMessage[1]
              /\ (argv # NoArg => stdout # MissingArgMessage))

C9_Witness == argv # NoArg /\ Stoul(argv).throws /\ pc = "exited"

\* C10, as stated: a finished run has exit code 1 exactly when the argument
\* is missing or rejected by std::stoul; every other run ends with exit code
\* 0 and without the invalid-argument message.
C10_AsStated ==
    pc = "exited" =>
        /\ (exitCode = "1" <=> ArgRejected)
        /\ ~ArgRejected => (exitCode = "0" /\ ~Printed(InvalidArgMessage[1]))

\* the digits std::hex would give an unsigned value
RECURSIVE Hex(_)
Hex(n) ==
    LET d == <<"0", "1", "2", "3", "4", "5", "6", "7", "8", "9",
               "a", "b", "c", "d", "e", "f">>
    IN  IF n < 16 THEN <<d[n + 1]>> ELSE Hex(n \div 16) \o <<d[(n % 16) + 1]>>

\* C11, as stated: for every frame read, the output holds a line with the
\* identifier in hexadecimal after "0x" and a line with the payload length in
\* decimal (identifier 0x123 = 291 and length 4 give "0x123" and "4").
C11_AsStated ==
    \A i \in At("getInputFrameId") :
        /\ Printed(<<"CAN frame - ID: 0x">> \o Hex(trace[i].arg))
        /\ Printed(<<"DLC: ">> \o Dec(trace[i + 1].arg))

ErrorLine == Line("CANReaderNode::errorStateEvent()")

\* the program under a runtime that keeps dispatching: no step that can be
\* taken is put off for ever
FairSpec == Spec /\ WF_vars(Next)

\* the part of C12 that is about progress: once the node is in Error, the
\* runtime gets to errorStateEvent and then to releaseStateEvent
ErrorLeadsToRelease == (nodeState = "ERROR") ~> Printed(ReleaseLine)

\* the part of C12 that is about errorStateEvent itself: in a finished run
\* every fault was followed by one logged errorStateEvent, one disconnect
\* request and the release
ErrorHandledBeforeExit ==
    (Count("activateFault") >= 1 /\ pc = "exited") =>
        /\ Printed(ErrorLine)
        /\ Count("disconnectPolySync") = 1
        /\ Printed(ReleaseLine)

\* C12, as stated: every entry into Error is logged by errorStateEvent, which
\* requests the disconnect, and is followed by releaseStateEvent, after which
\* the channel is off bus and released and the handle is null.
C12_AsStated ==
    /\ ErrorHandledBeforeExit
    /\ (Count("activateFault") >= 1 /\ Printed(ReleaseLine)) =>
           /\ _channel = nullptr
           /\ \A h \in DOMAIN heap : ~heap[h].alive /\ ~heap[h].onBus

\* C13: initStateEvent allocates the channel with the configured identifier
\* and the allow-virtual flags, then sets the fixed bit rate DATARATE_500K,
\* then goes on bus: setBitRate directly follows a successful allocation,
\* goOnBus directly follows a successful setBitRate and is not attempted
\* after a failed one, and no channel is on bus without its bit rate set.
C13_InitOrder ==
    /\ \A i \in At("new CANChannel") :
           /\ trace[i].arg = _channelID
           /\ trace[i].arg2 = PSYNC_CAN_OPEN_ALLOW_VIRTUAL
           /\ trace[i].dtc = "ok" => (i < Len(trace) /\ trace[i + 1].op = "setBitRate")
    /\ \A i \in At("setBitRate") :
           /\ i > 1 /\ trace[i - 1].op = "new CANChannel" /\ trace[i - 1].dtc = "ok"
           /\ trace[i].arg2 = DATARATE_500K
           /\ trace[i].dtc = "ok" => (i < Len(trace) /\ trace[i + 1].op = "goOnBus")
           /\ trace[i].dtc # "ok" => Count("goOnBus") = 0
    /\ \A i \in At("goOnBus") :
           /\ i > 1 /\ trace[i - 1].op = "setBitRate" /\ trace[i - 1].dtc = "ok"
           /\ ~trace[i].bus
    /\ \A h \in DOMAIN heap : heap[h].onBus => heap[h].rate = DATARATE_500K

C13_Witness ==
    /\ InitSucceeded /\ okCalls = 0 /\ nodeState = "OK"
    /\ _channel # nullptr /\ heap[_channel].onBus /\ heap[_channel].rate = DATARATE_500K

\* what may follow a fault: the disconnect request of errorStateEvent and the
\* calls of the teardown
AfterFaultOps == {"disconnectPolySync", "goOffBus", "delete"}

\* C14: once a fault has been activated (by initStateEvent or okStateEvent)
\* no channel is allocated, no setBitRate, goOnBus or read is called and no
\* second fault is activated; only the Error log, the disconnect request and
\* the teardown follow.
C14_NoRetryAfterFault ==
    /\ Count("activateFault") <= 1
    /\ \A i \in At("activateFault") :
           /\ \A j \in DOMAIN trace : j > i => trace[j].op \in AfterFaultOps
           /\ nodeState \in {"ERROR", "RELEASE", "DONE"}
           /\ \A k \in DOMAIN stdout :
                  (\E m \in DOMAIN stdout : m < k /\ stdout[m] = ErrorLine) =>
                      stdout[k] \in {ReleaseLine, InvalidArgMessage[1], InvalidArgMessage[2]}

C14_Witness == FatalRead /\ Count("delete") = 1 /\ pc = "exited" /\ okCalls < MaxReads

\* C16, as stated: when the program has ended, every channel that was
\* allocated has been taken off bus and deleted, with goOffBus and delete
\* each called exactly once on it, whether bring-up failed or goOffBus failed
\* during the release.
C16_AsStated ==
    /\ Count("delete") <= Len(heap)
    /\ (pc = "exited" /\ heap # <<>>) =>
           /\ \A h \in DOMAIN heap : ~heap[h].alive /\ ~heap[h].onBus
           /\ Count("goOffBus") = Len(heap)
           /\ Count("delete") = Len(heap)
           /\ _channel = nullptr

\* the same with every goOffBus call succeeding: what C16 says does hold
\* then, after a failed bring-up included
ReleasedOnceWhenOffBusSucceeds ==
    (pc = "exited" /\ heap # <<>> /\ \A i \in At("goOffBus") : trace[i].dtc = "ok") =>
        /\ \A h \in DOMAIN heap : ~heap[h].alive /\ ~heap[h].onBus
        /\ Count("goOffBus") = Len(heap)
        /\ Count("delete") = Len(heap)
        /\ _channel = nullptr

\* the last call made was a read that found no data
LastWasEmptyPoll ==
    /\ trace # <<>>
    /\ trace[Len(trace)].op = "read"
    /\ trace[Len(trace)].dtc = DTC_UNAVAILABLE

\* C17: an okStateEvent whose read fails with DTC_UNAVAILABLE leaves the
\* handle, the channel identifier, the channel object (its on-bus status
\* included) and the lifecycle state as they were, prints nothing, and calls
\* nothing but the read: no fault is activated.
C17_EmptyPollIsNoOp ==
    [][(okCalls' = okCalls + 1 /\ LastWasEmptyPoll') =>
          /\ _channel' = _channel
          /\ _channelID' = _channelID
          /\ heap' = heap
          /\ nodeState' = nodeState
          /\ pc' = pc /\ exitCode' = exitCode /\ pending' = pending
          /\ stdout' = stdout
          /\ trace' = Append(trace, Ev("read", 0, "", DTC_UNAVAILABLE, _channel, heap))]_vars

C17_Witness ==
    /\ LastWasEmptyPoll
    /\ Len(trace) >= 2
    /\ trace[Len(trace) - 1].op = "getInputFramePayloadSize"
    /\ nodeState = "OK"

====
